---- MODULE Spec2Model ----
(***************************************************************************)
(* A model of the load-test runner `inquisitor` (crate inquisitor-core,    *)
(* function `run`, and the stop-bound resolution of `Config`).             *)
(*                                                                         *)
(* `run` resolves the stop bound, spawns `connections` worker tasks on a   *)
(* multi-threaded runtime, joins them and prints the report.  Every worker *)
(* task is modelled statement by statement: each access to shared state    *)
(* (the two atomic counters, the cancellation flag, the histogram mutex,   *)
(* the wall clock, the network) is one step, so that TLC explores every    *)
(* interleaving of the tasks, of the Ctrl-C handler and of the clock.      *)
(*                                                                         *)
(* 64-bit quantities (u64 microseconds, usize counts) do not fit the       *)
(* integers of the model checker, so they are written as four base-10^6    *)
(* digits, most significant first ("wide" numbers).  usize is taken to be  *)
(* 64 bits wide.                                                           *)
(***************************************************************************)
EXTENDS Integers, Sequences, FiniteSets, TLC

\* ------------------------------------------------------------------------
\* Bounds of the model

\* Largest `connections` explored.
MaxConns == 2
\* Largest finite iteration count explored in a run.
MaxIter == 1
\* Number of one-microsecond instants the clock passes through one by one.
MaxTick == 1

\* ------------------------------------------------------------------------
\* Wide (64-bit and wider) unsigned numbers: <<d1, d2, d3, d4>> stands for
\* d1*10^18 + d2*10^12 + d3*10^6 + d4.

Limb == 1000 * 1000

\* The wide number of a small natural n (n < 10^12).
W(n) == <<0, 0, n \div Limb, n % Limb>>

WLt(a, b) ==
    \E i \in 1..4 : a[i] < b[i] /\ \A j \in 1..(i - 1) : a[j] = b[j]

WLe(a, b) == a = b \/ WLt(a, b)

WAdd(a, b) ==
    LET s4 == a[4] + b[4]
        s3 == a[3] + b[3] + (s4 \div Limb)
        s2 == a[2] + b[2] + (s3 \div Limb)
        s1 == a[1] + b[1] + (s2 \div Limb)
    IN  <<s1, s2 % Limb, s3 % Limb, s4 % Limb>>

\* a - b, for b <= a.
WSub(a, b) ==
    LET r4 == a[4] - b[4]
        b4 == IF r4 < 0 THEN 1 ELSE 0
        r3 == a[3] - b[3] - b4
        b3 == IF r3 < 0 THEN 1 ELSE 0
        r2 == a[2] - b[2] - b3
        b2 == IF r2 < 0 THEN 1 ELSE 0
        r1 == a[1] - b[1] - b2
    IN  <<r1, r2 + b2 * Limb, r3 + b3 * Limb, r4 + b4 * Limb>>

\* a * 1_000_000 (a shift by one digit), for a < 10^18.
WMulMillion(a) == <<a[2], a[3], a[4], 0>>

\* a / 1_000_000, rounded down.
WDivMillion(a) == <<0, a[1], a[2], a[3]>>

\* u64::MAX = 18_446_744_073_709_551_615.
U64_MAX == <<18, 446744, 73709, 551615>>
\* usize::MAX on a 64-bit target.
USIZE_MAX == U64_MAX
\* 2^64.
TWO_POW_64 == <<18, 446744, 73709, 551616>>

\* `x as u64` of a u128 x < 2^65: the value modulo 2^64.
AsU64(x) == IF WLe(x, U64_MAX) THEN x ELSE WSub(x, TWO_POW_64)

\* ------------------------------------------------------------------------
\* Option<T>

None == [tag |-> "None"]
Some(x) == [tag |-> "Some", val |-> x]

\* ------------------------------------------------------------------------
\* std::time::Duration: whole seconds and a sub-second part in nanoseconds.

\* Duration::from_micros(micros), micros a u64.
from_micros(micros) ==
    [secs |-> WDivMillion(micros), nanos |-> micros[4] * 1000]

\* Duration::as_micros(): a u128.
as_micros(d) == WAdd(WMulMillion(d.secs), W(d.nanos \div 1000))

\* ------------------------------------------------------------------------
\* Config::iterations_and_duration

DEFAULT_DURATION_SECS == 20

\* A mutant: the default duration taken as seconds, not microseconds, and a
\* given duration read in milliseconds.
iterations_and_duration_unscaled(self) ==
    IF self.iterations = None /\ self.duration = None
        THEN <<USIZE_MAX, W(DEFAULT_DURATION_SECS)>>
    ELSE IF self.duration = None
        THEN <<self.iterations.val, U64_MAX>>
    ELSE IF self.iterations = None
        THEN <<USIZE_MAX, AsU64(WDivMillion(WMulMillion(as_micros(self.duration.val))))>>
    ELSE <<self.iterations.val, AsU64(as_micros(self.duration.val))>>

\* The effective maximum number of iterations and duration (microseconds).
iterations_and_duration(self) ==
    IF self.iterations = None /\ self.duration = None
        THEN <<USIZE_MAX, WMulMillion(W(DEFAULT_DURATION_SECS))>>
    ELSE IF self.duration = None
        THEN <<self.iterations.val, U64_MAX>>
    ELSE IF self.iterations = None
        THEN <<USIZE_MAX, AsU64(as_micros(self.duration.val))>>
    ELSE <<self.iterations.val, AsU64(as_micros(self.duration.val))>>


\* ------------------------------------------------------------------------
\* The HTTP exchange, as `run` sees it

\* What builder.send().await returns: Err(e), or Ok(res), res having a
\* status.
Err == [tag |-> "Err"]
Ok(status) == [tag |-> "Ok", status |-> status]

Responses == {Err, Ok(200), Ok(500)}

\* What res.text().await returns: Some(body) for Ok(body), None for Err(e)
\* (the body cannot be read: the connection broke, the text is malformed).
Bodies == {"I was hit.", "internal error occurred"}

Texts == {None} \cup {Some(b) : b \in Bodies}

\* No response held (the local `response` is not live).
NoResponse == [tag |-> "-"]
\* No body held (the local `body` is not live).
NoBody == ""

\* StatusCode::is_success: 200..=299.
is_success(res) == 200 <= res.status /\ res.status <= 299

\* Regex::is_match for the patterns and bodies of the model.
is_match(re, body) == re = "error" /\ body = "internal error occurred"

\* A mutant: the arm of a failed request is missing, which the catch-all arm
\* lets compile.
MatchArmNoErr(resp, failed_regex_) ==
    IF resp.tag = "Ok" /\ is_success(resp) /\ failed_regex_ = None THEN 1
    ELSE IF resp.tag = "Ok" /\ is_success(resp) /\ failed_regex_ # None THEN 2
    ELSE IF resp.tag = "Ok" /\ ~is_success(resp) THEN 3
    ELSE 5

\* The arm of `match response` that is taken, 5 being the catch-all
\* `_ => unreachable!()`.
MatchArm(resp, failed_regex_) ==
    IF resp.tag = "Ok" /\ is_success(resp) /\ failed_regex_ = None THEN 1
    ELSE IF resp.tag = "Ok" /\ is_success(resp) /\ failed_regex_ # None THEN 2
    ELSE IF resp.tag = "Ok" /\ ~is_success(resp) THEN 3
    ELSE IF resp.tag = "Err" THEN 4
    ELSE 5

\* ------------------------------------------------------------------------
\* The histogram of response times

\* Histogram::new_with_max(1_000_000_000_000, 3): the highest value tracked.
HIST_MAX == <<0, 1, 0, 0>>

\* Histogram::record: Ok, or Err for a value out of range.
RecordOk(value) == WLe(value, HIST_MAX)

\* ------------------------------------------------------------------------
\* time.rs: parse_duration.  A text is a sequence of characters.

\* Longest text given to --duration.
MaxArgLen == 4

\* The characters of the texts: two digits, the point, the three units, a
\* sign and a letter that is none of these.
ArgChars == {"0", "5", ".", "s", "m", "h", "-", "x"}

\* \d
is_digit(c) == c \in {"0", "1", "2", "3", "4", "5", "6", "7", "8", "9"}

\* [smh]
is_unit(c) == c \in {"s", "m", "h"}

digit_value(c) ==
    CASE c = "0" -> 0 [] c = "1" -> 1 [] c = "2" -> 2 [] c = "3" -> 3
      [] c = "4" -> 4 [] c = "5" -> 5 [] c = "6" -> 6 [] c = "7" -> 7
      [] c = "8" -> 8 [] c = "9" -> 9

\* \d* from position i: the position after the digits.
RECURSIVE digits_end(_, _)
digits_end(text, i) ==
    IF i <= Len(text) /\ is_digit(text[i])
        THEN digits_end(text, i + 1)
        ELSE i

\* The regex (\d\d*(?:\.\d\d*)??)([smh]) matched from position i: digits, a
\* point with digits after it when no unit follows the digits at once, and
\* a unit.  The digits are all taken: a shorter run is followed by a digit.
match_at(text, i) ==
    LET j == digits_end(text, i)
        k == digits_end(text, j + 1)
    IN  IF j = i \/ j > Len(text) THEN None
        ELSE IF is_unit(text[j])
            THEN Some([int |-> SubSeq(text, i, j - 1), frac |-> <<>>,
                       unit |-> text[j]])
        ELSE IF text[j] = "." /\ k > j + 1 /\ k <= Len(text) /\ is_unit(text[k])
            THEN Some([int |-> SubSeq(text, i, j - 1),
                       frac |-> SubSeq(text, j + 1, k - 1),
                       unit |-> text[k]])
        ELSE None

\* Regex::captures: the leftmost match, anywhere in the text.
RECURSIVE captures_from(_, _)
captures_from(text, i) ==
    IF i > Len(text) THEN None
    ELSE IF match_at(text, i) # None THEN match_at(text, i)
    ELSE captures_from(text, i + 1)

captures(text) == captures_from(text, 1)

\* The number written by a run of digits.
RECURSIVE digits_value(_)
digits_value(ds) ==
    IF ds = <<>> THEN 0
    ELSE digits_value(SubSeq(ds, 1, Len(ds) - 1)) * 10 + digit_value(ds[Len(ds)])

RECURSIVE pow10(_)
pow10(k) == IF k = 0 THEN 1 ELSE 10 * pow10(k - 1)

\* A wide number divided by a small one, the fraction dropped.
WDivSmall(a, d) ==
    LET r1 == a[1] % d
        n2 == r1 * Limb + a[2]
        r2 == n2 % d
        n3 == r2 * Limb + a[3]
        r3 == n3 % d
        n4 == r3 * Limb + a[4]
    IN  <<a[1] \div d, n2 \div d, n3 \div d, n4 \div d>>

\* The seconds of a unit (lines 34-39, without the factor 1_000_000).
unit_secs(u) == CASE u = "s" -> 1 [] u = "m" -> 60 [] u = "h" -> 60 * 60

\* (base * mul) as u64 (lines 31-41): the microseconds of the number and
\* unit captured, the fraction of a microsecond dropped.  (The product is
\* taken exactly; for the texts of the model base and base * mul are exact
\* in f64.)
captured_micros(cap) ==
    LET scale == pow10(Len(cap.frac))
        n == digits_value(cap.int) * scale + digits_value(cap.frac)
    IN  WDivSmall(WMulMillion(W(n * unit_secs(cap.unit))), scale)

DurationParseError == [tag |-> "Err", error |-> "DurationParseError"]

\* parse_duration(duration) (lines 25-42).
parse_duration(text) ==
    LET cap == captures(text)
    IN  IF cap = None
            THEN DurationParseError
            ELSE [tag |-> "Ok", val |-> from_micros(captured_micros(cap.val))]

\* ------------------------------------------------------------------------
\* time.rs: the display of Microseconds.  What is written is a number with
\* `decimals` digits after the point and a unit: "1.01 ms" is
\* [value |-> W(101), decimals |-> 2, unit |-> "ms"].

\* n / d to the nearest whole number, a tie going to the even one: what
\* {:.k} writes of a quotient.  (The quotient is taken exactly; the f64
\* quotient differs from it by less than any distance from a tie other than
\* zero that a whole number of microseconds below 10^9 can have.)
round_div(n, d) ==
    LET q == n \div d
        r == n % d
    IN  IF 2 * r > d THEN q + 1
        ELSE IF 2 * r = d THEN q + (q % 2)
        ELSE q

\* A wide number of whole seconds: x / 1_000_000 written with {:.0}.
round_secs(x) ==
    LET q == WDivMillion(x)
        r == x[4]
    IN  IF 2 * r > Limb \/ (2 * r = Limb /\ q[4] % 2 = 1)
            THEN WAdd(q, W(1))
            ELSE q

\* A mutant: the bounds of the ranges taken inclusive.
fmt_inclusive(x) ==
    LET n == x[3] * Limb + x[4]
    IN  IF WLe(x, W(1000))
            THEN [value |-> x, decimals |-> 0, unit |-> "us"]
        ELSE IF WLe(x, W(10000))
            THEN [value |-> W(round_div(n, 10)), decimals |-> 2, unit |-> "ms"]
        ELSE IF WLe(x, W(100000))
            THEN [value |-> W(round_div(n, 100)), decimals |-> 1, unit |-> "ms"]
        ELSE IF WLe(x, W(1000000))
            THEN [value |-> W(round_div(n, 1000)), decimals |-> 0, unit |-> "ms"]
        ELSE IF WLe(x, W(10000000))
            THEN [value |-> W(round_div(n, 10000)), decimals |-> 2, unit |-> "s"]
        ELSE IF WLe(x, W(100000000))
            THEN [value |-> W(round_div(n, 100000)), decimals |-> 1, unit |-> "s"]
        ELSE [value |-> round_secs(x), decimals |-> 0, unit |-> "s"]

\* <Microseconds as Display>::fmt (time.rs lines 7-20).
fmt(x) ==
    LET n == x[3] * Limb + x[4]
    IN  IF WLt(x, W(1000))
            THEN [value |-> x, decimals |-> 0, unit |-> "us"]
        ELSE IF WLt(x, W(10000))
            THEN [value |-> W(round_div(n, 10)), decimals |-> 2, unit |-> "ms"]
        ELSE IF WLt(x, W(100000))
            THEN [value |-> W(round_div(n, 100)), decimals |-> 1, unit |-> "ms"]
        ELSE IF WLt(x, W(1000000))
            THEN [value |-> W(round_div(n, 1000)), decimals |-> 0, unit |-> "ms"]
        ELSE IF WLt(x, W(10000000))
            THEN [value |-> W(round_div(n, 10000)), decimals |-> 2, unit |-> "s"]
        ELSE IF WLt(x, W(100000000))
            THEN [value |-> W(round_div(n, 100000)), decimals |-> 1, unit |-> "s"]
        ELSE [value |-> round_secs(x), decimals |-> 0, unit |-> "s"]

\* ------------------------------------------------------------------------
\* The state

VARIABLES
    config,          \* the Config given to run
    iterations,      \* resolved bound on passes + errors
    duration,        \* resolved bound on the elapsed microseconds
    test_start_time, \* the instant the test started
    now,             \* the wall clock, in microseconds
    should_exit,     \* AtomicBool set by the Ctrl-C handler
    passes,          \* AtomicUsize
    errors,          \* AtomicUsize
    times,           \* the histogram: [len |-> number of recorded samples]
    lock,            \* the task holding the histogram mutex, 0 for none
    handles,         \* number of tasks spawned so far
    pc,              \* the place each task is at
    total,           \* per task: local `total`
    req_start_time,  \* per task: local `req_start_time`
    elapsed,         \* per task: local `elapsed`
    response,        \* per task: local `response`
    body,            \* per task: local `body` (line 141)
    mainPc,          \* the place the main thread is at
    exitStatus,      \* None while the process runs, then Some(exit status)
    report,          \* None, or the arguments print_results was called with
    stdout,          \* number of response bodies printed
    interrupts,      \* history: number of Ctrl-C delivered
    issued,          \* history: number of requests sent
    classified,      \* history: requests classified [pass |-> n, fail |-> m]
    answered,        \* history: kinds of answer received [s2xx, other]
    owed,            \* history: per task, the request in flight at the first Ctrl-C
    duration_arg,    \* the text given to --duration on the command line
    parse_result,    \* what parse_duration made of it (None: not parsed yet)
    sent             \* history: the requests sent, as they were built

shared == <<should_exit, passes, errors, times, lock>>
locals == <<pc, total, req_start_time, elapsed, response, body>>
mainv == <<config, iterations, duration, test_start_time, handles, mainPc, report>>
hist == <<interrupts, issued, classified, answered, owed>>
cli == <<duration_arg, parse_result>>
vars == <<shared, locals, mainv, hist, now, exitStatus, stdout, cli, sent>>

Tasks == 1..MaxConns

\* The instants the clock passes through: MaxTick single microseconds from
\* the start, then an instant so late that a request sent before it has
\* taken longer than the histogram tracks (and the default duration is over).
Instants == {W(i) : i \in 0..MaxTick} \cup {WAdd(HIST_MAX, HIST_MAX)}

\* Requests sent in a run of the model are capped (a run without an
\* iteration bound sends without limit until its time is up).
MaxIssued == MaxIter + MaxConns

\* SystemTime::elapsed().unwrap().as_micros() as u64
elapsed_micros(since) == AsU64(WSub(now, since))

\* ------------------------------------------------------------------------
\* Configurations

Configs(iters, durs) ==
    [iterations : iters, duration : durs, connections : 1..MaxConns,
     print_response : BOOLEAN, failed_body : {None, Some("error")},
     method : {"Get"}, request_body : {None}]

RunIterations == {None} \cup {Some(W(i)) : i \in 0..MaxIter}
RunDurations == {None, Some(from_micros(W(1)))}

InitWith(cfgs) ==
    /\ config \in cfgs
    /\ iterations = W(0)
    /\ duration = W(0)
    /\ test_start_time = W(0)
    /\ now = W(0)
    /\ should_exit = FALSE
    /\ passes = 0
    /\ errors = 0
    /\ times = [len |-> 0]
    /\ lock = 0
    /\ handles = 0
    /\ pc = [w \in Tasks |-> "unspawned"]
    /\ total = [w \in Tasks |-> 0]
    /\ req_start_time = [w \in Tasks |-> W(0)]
    /\ elapsed = [w \in Tasks |-> W(0)]
    /\ response = [w \in Tasks |-> NoResponse]
    /\ body = [w \in Tasks |-> NoBody]
    /\ mainPc = "resolve"
    /\ exitStatus = None
    /\ report = None
    /\ stdout = 0
    /\ interrupts = 0
    /\ issued = 0
    /\ classified = [pass |-> 0, fail |-> 0]
    /\ answered = [s2xx |-> FALSE, other |-> FALSE]
    /\ owed = [w \in Tasks |-> "none"]
    /\ sent = {}

\* The command line is not part of a run: run is given a Config.
NoCli ==
    /\ duration_arg = <<>>
    /\ parse_result = None

\* The state when run has installed the Ctrl-C handler (lib.rs line 33).
Init == InitWith(Configs(RunIterations, RunDurations)) /\ NoCli


\* ------------------------------------------------------------------------
\* The main thread: run

Running == exitStatus = None

\* Lines 35-59: the stop bound is resolved and the start time is taken.
Resolve ==
    /\ Running
    /\ mainPc = "resolve"
    /\ iterations' = iterations_and_duration(config)[1]
    /\ duration' = iterations_and_duration(config)[2]
    /\ test_start_time' = now
    /\ mainPc' = "spawn"
    /\ UNCHANGED <<config, handles, report, shared, locals, hist, now,
                   exitStatus, stdout>>
    /\ UNCHANGED <<cli, sent>>

\* A mutant: the loop ends one round early.
SpawnOneShort ==
    /\ Running
    /\ mainPc = "spawn"
    /\ handles < config.connections
    /\ handles' = handles + 1
    /\ pc' = [pc EXCEPT ![handles + 1] = "load_passes"]
    /\ mainPc' = IF handles + 1 >= config.connections - 1 THEN "join" ELSE "spawn"
    /\ UNCHANGED <<config, iterations, duration, test_start_time, report,
                   shared, total, req_start_time, elapsed, response, body,
                   hist, now, exitStatus, stdout>>
    /\ UNCHANGED <<cli, sent>>

\* Lines 82-177: one round of the loop spawns one task, which starts at
\* line 100; after the last round the main thread blocks on the join.
Spawn ==
    /\ Running
    /\ mainPc = "spawn"
    /\ handles < config.connections
    /\ handles' = handles + 1
    /\ pc' = [pc EXCEPT ![handles + 1] = "load_passes"]
    /\ mainPc' = IF handles + 1 = config.connections THEN "join" ELSE "spawn"
    /\ UNCHANGED <<config, iterations, duration, test_start_time, report,
                   shared, total, req_start_time, elapsed, response, body,
                   hist, now, exitStatus, stdout>>
    /\ UNCHANGED <<cli, sent>>

\* A task is over: its loop ended, or it panicked (the runtime catches the
\* panic of a spawned task and completes its JoinHandle with an error).
Finished(w) == pc[w] \in {"stopped", "panicked"}

\* A mutant: the main thread does not wait for the tasks.
JoinEarly ==
    /\ Running
    /\ mainPc = "join"
    /\ mainPc' = "print"
    /\ UNCHANGED <<config, iterations, duration, test_start_time, handles,
                   report, shared, locals, hist, now, exitStatus, stdout>>
    /\ UNCHANGED <<cli, sent>>

\* Lines 179-184: join_all completes when every task is over.
Join ==
    /\ Running
    /\ mainPc = "join"
    /\ \A w \in 1..config.connections : Finished(w)
    /\ mainPc' = "print"
    /\ UNCHANGED <<config, iterations, duration, test_start_time, handles,
                   report, shared, locals, hist, now, exitStatus, stdout>>
    /\ UNCHANGED <<cli, sent>>

\* format!("{:.2}", (errors as f64 / iterations as f64) * 100.0), in
\* hundredths of a percent: the nearest hundredth, a tie going to the even
\* one (the quotient is taken exactly; the f64 division is off by less than
\* a hundredth of a hundredth for the counts of a run).
percentage(errors_, iterations_) ==
    LET n == errors_ * 10000
        q == n \div iterations_
        r == n % iterations_
    IN  IF 2 * r > iterations_ THEN q + 1
        ELSE IF 2 * r = iterations_ THEN q + (q % 2)
        ELSE q

\* A mutant: the percentage is printed whatever the number of errors.
errors_line_always(errors_, passes_) ==
    LET iterations_ == passes_ + errors_
    IN  [errors |-> errors_, iterations |-> iterations_,
         percent |-> IF iterations_ > 0
                        THEN Some(percentage(errors_, iterations_))
                        ELSE Some(0)]

\* Lines 196 and 200-206 of print_results: "errors: {}/{}", followed by
\* " ({:.2}%)" when errors > 0.
errors_line(errors_, passes_) ==
    LET iterations_ == passes_ + errors_
    IN  [errors |-> errors_, iterations |-> iterations_,
         percent |-> IF errors_ > 0
                        THEN Some(percentage(errors_, iterations_))
                        ELSE None]

\* Lines 186-192: the elapsed time and the counters are read and handed to
\* print_results with the histogram; print_results writes the report.
PrintResults ==
    /\ Running
    /\ mainPc = "print"
    /\ report' = Some([elapsed_us |-> elapsed_micros(test_start_time),
                       errors |-> errors, passes |-> passes,
                       samples |-> times.len,
                       errors_line |-> errors_line(errors, passes),
                       total_time |-> fmt(elapsed_micros(test_start_time))])
    /\ mainPc' = "return"
    /\ UNCHANGED <<config, iterations, duration, test_start_time, handles,
                   shared, locals, hist, now, exitStatus, stdout>>
    /\ UNCHANGED <<cli, sent>>

\* Line 193: run returns to its caller.
Return ==
    /\ Running
    /\ mainPc = "return"
    /\ mainPc' = "returned"
    /\ UNCHANGED <<config, iterations, duration, test_start_time, handles,
                   report, shared, locals, hist, now, exitStatus, stdout>>
    /\ UNCHANGED <<cli, sent>>

\* The caller of run, main, returns: the process exits with status 0.
Exit ==
    /\ Running
    /\ mainPc = "returned"
    /\ exitStatus' = Some(0)
    /\ UNCHANGED <<mainv, shared, locals, hist, now, stdout>>
    /\ UNCHANGED <<cli, sent>>

\* ------------------------------------------------------------------------
\* The Ctrl-C handler (lines 26-32), run on each interrupt delivered to the
\* process

\* exit(130) ends the process: its threads and tasks are gone with their
\* memory; what it has written to its output stays.
Killed ==
    /\ should_exit' = TRUE
    /\ passes' = 0
    /\ errors' = 0
    /\ times' = [len |-> 0]
    /\ lock' = 0
    /\ pc' = [w \in Tasks |-> "killed"]
    /\ total' = [w \in Tasks |-> 0]
    /\ req_start_time' = [w \in Tasks |-> W(0)]
    /\ elapsed' = [w \in Tasks |-> W(0)]
    /\ response' = [w \in Tasks |-> NoResponse]
    /\ body' = [w \in Tasks |-> NoBody]
    /\ mainPc' = "killed"
    /\ exitStatus' = Some(130)
    /\ UNCHANGED <<config, iterations, duration, test_start_time, handles,
                   report, issued, classified, answered, owed, stdout>>

\* A mutant: the handler exits at the first interrupt.
ArmedKills == Killed

\* The first interrupt: fetch_or(true) returns false.
Armed ==
    /\ should_exit' = TRUE
    /\ owed' = [w \in Tasks |-> IF pc[w] = "await" THEN "inflight" ELSE owed[w]]
    /\ UNCHANGED <<passes, errors, times, lock, locals, mainv, issued,
                   classified, answered, exitStatus, stdout>>

CtrlC ==
    /\ Running
    /\ interrupts' = interrupts + 1
    /\ IF should_exit THEN Killed ELSE Armed
    /\ now' = now
    /\ UNCHANGED <<cli, sent>>

\* ------------------------------------------------------------------------
\* The wall clock

Tick ==
    /\ Running
    /\ mainPc # "resolve"
    /\ \E t \in Instants :
          /\ WLt(now, t)
          /\ \A u \in Instants : WLt(now, u) => WLe(t, u)
          /\ now' = t
    /\ UNCHANGED <<shared, locals, mainv, hist, exitStatus, stdout>>
    /\ UNCHANGED <<cli, sent>>


\* ------------------------------------------------------------------------
\* A worker task (lines 99-174)

\* The condition of the while loop (line 103).
LoopConditionEither(total_, total_elapsed_) ==
    WLt(W(total_), iterations) \/ WLt(total_elapsed_, duration)

LoopCondition(total_, total_elapsed_) ==
    WLt(W(total_), iterations) /\ WLt(total_elapsed_, duration)

\* should_exit.load(Relaxed) (line 104).
ExitNeverRead == FALSE

ExitRead == should_exit

\* AtomicUsize::fetch_add(1, SeqCst): the new value of the counter.
fetch_add_lossy(counter) == IF counter = 0 THEN 1 ELSE counter

fetch_add(counter) == counter + 1

failed_regex == config.failed_body

\* History: the request of w that was in flight at the first Ctrl-C moves on.
Owed(w, from, to) ==
    [owed EXCEPT ![w] = IF owed[w] = from THEN to ELSE owed[w]]

\* Lines 100 and 171, first operand: passes.load(Relaxed).
LoadPasses(w) ==
    /\ Running
    /\ pc[w] = "load_passes"
    /\ total' = [total EXCEPT ![w] = passes]
    /\ pc' = [pc EXCEPT ![w] = "load_errors"]
    /\ UNCHANGED <<shared, req_start_time, elapsed, response, body, mainv,
                   hist, now, exitStatus, stdout>>
    /\ UNCHANGED <<cli, sent>>

\* A mutant: the errors are left out of the total.
LoadErrorsDropped(w) ==
    /\ Running
    /\ pc[w] = "load_errors"
    /\ pc' = [pc EXCEPT ![w] = "load_elapsed"]
    /\ UNCHANGED <<shared, total, req_start_time, elapsed, response, body,
                   mainv, hist, now, exitStatus, stdout, cli, sent>>

\* Lines 100 and 171, second operand: errors.load(Relaxed), and the sum.
LoadErrors(w) ==
    /\ Running
    /\ pc[w] = "load_errors"
    /\ total' = [total EXCEPT ![w] = total[w] + errors]
    /\ pc' = [pc EXCEPT ![w] = "load_elapsed"]
    /\ UNCHANGED <<shared, req_start_time, elapsed, response, body, mainv,
                   hist, now, exitStatus, stdout>>
    /\ UNCHANGED <<cli, sent>>

\* Lines 101 and 172, then line 103: the elapsed time is read and the
\* condition of the while loop tested.  The locals total and total_elapsed
\* are not read again before they are assigned anew.
LoadElapsed(w) ==
    /\ Running
    /\ pc[w] = "load_elapsed"
    /\ LET total_elapsed == elapsed_micros(test_start_time)
       IN  pc' = [pc EXCEPT ![w] =
                    IF LoopCondition(total[w], total_elapsed)
                        THEN "check_exit" ELSE "stopped"]
    /\ total' = [total EXCEPT ![w] = 0]
    /\ UNCHANGED <<shared, req_start_time, elapsed, response, body, mainv,
                   hist, now, exitStatus, stdout>>
    /\ UNCHANGED <<cli, sent>>

\* A mutant: the worker that breaks clears the flag it has read.
BreakResets(w) ==
    /\ Running
    /\ pc[w] = "check_exit"
    /\ ExitRead
    /\ should_exit' = FALSE
    /\ pc' = [pc EXCEPT ![w] = "stopped"]
    /\ UNCHANGED <<passes, errors, times, lock, total, req_start_time, elapsed,
                   response, body, mainv, hist, now, exitStatus, stdout, cli,
                   sent>>

\* Lines 104-106: should_exit reads true, break.
Break(w) ==
    /\ Running
    /\ pc[w] = "check_exit"
    /\ ExitRead
    /\ pc' = [pc EXCEPT ![w] = "stopped"]
    /\ UNCHANGED <<shared, total, req_start_time, elapsed, response, body,
                   mainv, hist, now, exitStatus, stdout>>
    /\ UNCHANGED <<cli, sent>>

\* Lines 108-115: the builder for config.method, with the request body
\* whenever one is configured.  (The headers, lines 117-119, are left out.)
build_request(config_) ==
    [method |-> config_.method, body |-> config_.request_body]

\* Lines 104-122: should_exit reads false; the request is built, the start
\* time taken and the request sent.
Send(w) ==
    /\ Running
    /\ pc[w] = "check_exit"
    /\ ~ExitRead
    /\ issued < MaxIssued
    /\ req_start_time' = [req_start_time EXCEPT ![w] = now]
    /\ issued' = issued + 1
    /\ pc' = [pc EXCEPT ![w] = "await"]
    /\ UNCHANGED <<shared, total, elapsed, response, body, mainv, interrupts,
                   classified, answered, owed, now, exitStatus, stdout>>
    /\ sent' = sent \cup {build_request(config)}
    /\ UNCHANGED cli

\* Lines 122-123: send().await completes with a response or an error, and
\* the latency is taken.
Receive(w) ==
    /\ Running
    /\ pc[w] = "await"
    /\ \E r \in Responses :
          /\ response' = [response EXCEPT ![w] = r]
          /\ answered' = IF r.tag = "Ok" /\ is_success(r)
                            THEN [answered EXCEPT !.s2xx = TRUE]
                            ELSE [answered EXCEPT !.other = TRUE]
    /\ elapsed' = [elapsed EXCEPT ![w] = elapsed_micros(req_start_time[w])]
    /\ req_start_time' = [req_start_time EXCEPT ![w] = W(0)]
    /\ pc' = [pc EXCEPT ![w] = "lock"]
    /\ UNCHANGED <<shared, total, body, mainv, interrupts, issued, classified,
                   owed, now, exitStatus, stdout>>
    /\ UNCHANGED <<cli, sent>>

\* A mutant: the lock is granted while another task holds it.
LockUnguarded(w) ==
    /\ Running
    /\ pc[w] = "lock"
    /\ lock' = w
    /\ pc' = [pc EXCEPT ![w] = "record"]
    /\ UNCHANGED <<should_exit, passes, errors, times, total, req_start_time,
                   elapsed, response, body, mainv, hist, now, exitStatus,
                   stdout, cli, sent>>

\* Lines 124-126: times.lock().await is granted.
Lock(w) ==
    /\ Running
    /\ pc[w] = "lock"
    /\ lock = 0
    /\ lock' = w
    /\ pc' = [pc EXCEPT ![w] = "record"]
    /\ UNCHANGED <<should_exit, passes, errors, times, total, req_start_time,
                   elapsed, response, body, mainv, hist, now, exitStatus,
                   stdout>>
    /\ UNCHANGED <<cli, sent>>

\* Lines 127-128: record(elapsed).expect(..); the guard is dropped at the
\* end of the statement, or by the unwinding of the panic.
Record(w) ==
    /\ Running
    /\ pc[w] = "record"
    /\ lock' = 0
    /\ elapsed' = [elapsed EXCEPT ![w] = W(0)]
    /\ IF RecordOk(elapsed[w])
          THEN /\ times' = [times EXCEPT !.len = @ + 1]
               /\ pc' = [pc EXCEPT ![w] = "match"]
               /\ response' = response
               /\ owed' = Owed(w, "inflight", "recorded")
          ELSE /\ times' = times
               /\ pc' = [pc EXCEPT ![w] = "panicked"]
               /\ response' = [response EXCEPT ![w] = NoResponse]
               /\ owed' = owed
    /\ UNCHANGED <<should_exit, passes, errors, total, req_start_time, body,
                   mainv, interrupts, issued, classified, answered, now,
                   exitStatus, stdout>>
    /\ UNCHANGED <<cli, sent>>

\* A request is counted as a pass: passes.fetch_add(1, SeqCst).
CountPass(w) ==
    /\ passes' = fetch_add(passes)
    /\ errors' = errors
    /\ classified' = [classified EXCEPT !.pass = @ + 1]
    /\ owed' = Owed(w, "recorded", "counted")

\* A request is counted as an error: errors.fetch_add(1, SeqCst).
CountError(w) ==
    /\ errors' = fetch_add(errors)
    /\ passes' = passes
    /\ classified' = [classified EXCEPT !.fail = @ + 1]
    /\ owed' = Owed(w, "recorded", "counted")

\* Lines 131-132: 2xx and no pattern: a pass; the body is read next when
\* it is to be printed.
Arm1(w) ==
    /\ CountPass(w)
    /\ IF config.print_response
          THEN /\ pc' = [pc EXCEPT ![w] = "text"]
               /\ response' = response
          ELSE /\ pc' = [pc EXCEPT ![w] = "load_passes"]
               /\ response' = [response EXCEPT ![w] = NoResponse]

\* Line 140: 2xx and a pattern: the body is read next.
Arm2(w) ==
    /\ pc' = [pc EXCEPT ![w] = "body"]
    /\ UNCHANGED <<passes, errors, classified, owed, response>>

\* Lines 156-161: not 2xx: an error.
Arm3(w) ==
    /\ CountError(w)
    /\ pc' = [pc EXCEPT ![w] = "load_passes"]
    /\ response' = [response EXCEPT ![w] = NoResponse]

\* Lines 162-167: the request failed: an error.
Arm4(w) ==
    /\ CountError(w)
    /\ pc' = [pc EXCEPT ![w] = "load_passes"]
    /\ response' = [response EXCEPT ![w] = NoResponse]

\* Line 168: unreachable!() panics.
Arm5(w) ==
    /\ pc' = [pc EXCEPT ![w] = "panicked"]
    /\ response' = [response EXCEPT ![w] = NoResponse]
    /\ UNCHANGED <<passes, errors, classified, owed>>

\* Line 130: match response.
Match(w) ==
    /\ Running
    /\ pc[w] = "match"
    /\ LET arm == MatchArm(response[w], failed_regex)
       IN  CASE arm = 1 -> Arm1(w)
             [] arm = 2 -> Arm2(w)
             [] arm = 3 -> Arm3(w)
             [] arm = 4 -> Arm4(w)
             [] OTHER -> Arm5(w)
    /\ UNCHANGED <<should_exit, times, lock, total, req_start_time, elapsed,
                   body, mainv, interrupts, issued, answered, now, exitStatus,
                   stdout>>
    /\ UNCHANGED <<cli, sent>>

\* Lines 133-138: res.text().await.unwrap() of a counted pass is printed,
\* or panics when the body cannot be read.
Text(w) ==
    /\ Running
    /\ pc[w] = "text"
    /\ response' = [response EXCEPT ![w] = NoResponse]
    /\ \E text \in Texts :
          IF text = None
              THEN /\ pc' = [pc EXCEPT ![w] = "panicked"]
                   /\ stdout' = stdout
              ELSE /\ pc' = [pc EXCEPT ![w] = "load_passes"]
                   /\ stdout' = stdout + 1
    /\ UNCHANGED <<shared, total, req_start_time, elapsed, body, mainv, hist,
                   now, exitStatus>>
    /\ UNCHANGED <<cli, sent>>

\* Line 141: let body = res.text().await.unwrap(): the body is read, or the
\* task panics when it cannot be.
ReadBody(w) ==
    /\ Running
    /\ pc[w] = "body"
    /\ response' = [response EXCEPT ![w] = NoResponse]
    /\ \E text \in Texts :
          IF text = None
              THEN /\ pc' = [pc EXCEPT ![w] = "panicked"]
                   /\ body' = body
              ELSE /\ pc' = [pc EXCEPT ![w] = "judge"]
                   /\ body' = [body EXCEPT ![w] = text.val]
    /\ UNCHANGED <<shared, total, req_start_time, elapsed, mainv, hist, now,
                   exitStatus, stdout>>
    /\ UNCHANGED <<cli, sent>>

\* A mutant: a body that matches the pattern counted as a pass.
BodyMatchesPass(w) ==
    /\ CountPass(w)
    /\ stdout' = stdout

\* Lines 143-147: the body matches the pattern: an error.
BodyMatches(w) ==
    /\ CountError(w)
    /\ stdout' = stdout

\* Lines 148-154: the body does not match: a pass, printed on demand.
BodyPasses(w) ==
    /\ CountPass(w)
    /\ stdout' = IF config.print_response THEN stdout + 1 ELSE stdout

\* Lines 143-154: the body is matched against the pattern.
Judge(w) ==
    /\ Running
    /\ pc[w] = "judge"
    /\ IF is_match(failed_regex.val, body[w])
          THEN BodyMatches(w)
          ELSE BodyPasses(w)
    /\ pc' = [pc EXCEPT ![w] = "load_passes"]
    /\ body' = [body EXCEPT ![w] = NoBody]
    /\ UNCHANGED <<should_exit, times, lock, total, req_start_time, elapsed,
                   response, mainv, interrupts, issued, answered, now,
                   exitStatus>>
    /\ UNCHANGED <<cli, sent>>

Worker(w) ==
    \/ LoadPasses(w)
    \/ LoadErrors(w)
    \/ LoadElapsed(w)
    \/ Break(w)
    \/ Send(w)
    \/ Receive(w)
    \/ Lock(w)
    \/ Record(w)
    \/ Match(w)
    \/ Text(w)
    \/ ReadBody(w)
    \/ Judge(w)

\* ------------------------------------------------------------------------
\* The run

Next ==
    \/ Resolve
    \/ Spawn
    \/ \E w \in Tasks : Worker(w)
    \/ Join
    \/ PrintResults
    \/ Return
    \/ Exit
    \/ CtrlC
    \/ Tick

Spec == Init /\ [][Next]_vars

\* The stop-bound resolution alone, over a wider range of configurations.
BoundIterations == RunIterations \cup {Some(USIZE_MAX)}

BoundMicros ==
    {W(0), W(1), W(1500000), W(20000000), W(90000000), <<0, 72, 0, 0>>,
     HIST_MAX, U64_MAX}

BoundDurations == {None} \cup {Some(from_micros(u)) : u \in BoundMicros}

InitBound == InitWith(Configs(BoundIterations, BoundDurations)) /\ NoCli

NextBound == Resolve

SpecBound == InitBound /\ [][NextBound]_vars

\* The command line alone: clap hands the text of --duration to
\* parse_duration (inquisitor/src/main.rs line 71).
RECURSIVE TextsUpTo(_)
TextsUpTo(n) ==
    IF n = 0 THEN {<<>>}
    ELSE TextsUpTo(n - 1)
            \cup {Append(t, c) : t \in TextsUpTo(n - 1), c \in ArgChars}

InitParse ==
    /\ InitWith({c \in Configs({None}, {None}) :
                    c.connections = 1 /\ ~c.print_response /\ c.failed_body = None})
    /\ duration_arg \in TextsUpTo(MaxArgLen)
    /\ parse_result = None

Parse ==
    /\ parse_result = None
    /\ parse_result' = Some(parse_duration(duration_arg))
    /\ UNCHANGED <<duration_arg, shared, locals, mainv, hist, now, exitStatus,
                   stdout, sent>>

NextParse == Parse

SpecParse == InitParse /\ [][NextParse]_vars


\* The run of one worker for one request, over the methods and request
\* bodies of the configuration.
RequestConfigs ==
    [iterations : {Some(W(1))}, duration : {None}, connections : {1},
     print_response : BOOLEAN, failed_body : {None, Some("error")},
     method : {"Get", "Post"}, request_body : {None, Some("payload")}]

InitRequest == InitWith(RequestConfigs) /\ NoCli

SpecRequest == InitRequest /\ [][Next]_vars

\* The run that sends nothing (an iteration bound of 0) and reports the time
\* it took, over the instants at which the clock may then stand.
DisplayConfigs ==
    {c \in Configs({Some(W(0))}, {None}) :
        ~c.print_response /\ c.failed_body = None}

DisplayInstants ==
    {W(0), W(1), W(999), W(1000), W(1010), W(1125), W(9999), W(10000),
     W(12345), W(99999), W(100000), W(999999), W(1000000), W(1500000),
     W(9999999), W(10000000), W(99999999), W(100000000), W(999999999),
     <<0, 0, 1000, 0>>, <<0, 0, 2000, 500000>>, <<0, 1, 0, 1>>}

InitDisplay == InitWith(DisplayConfigs) /\ NoCli

TickDisplay ==
    /\ Running
    /\ mainPc # "resolve"
    /\ \E t \in DisplayInstants : WLt(now, t) /\ now' = t
    /\ UNCHANGED <<shared, locals, mainv, hist, exitStatus, stdout>>
    /\ UNCHANGED <<cli, sent>>

NextDisplay ==
    \/ Resolve
    \/ Spawn
    \/ \E w \in Tasks : LoadPasses(w) \/ LoadErrors(w) \/ LoadElapsed(w)
    \/ Join
    \/ PrintResults
    \/ Return
    \/ Exit
    \/ TickDisplay

SpecDisplay == InitDisplay /\ [][NextDisplay]_vars

\* The run under fair scheduling: the runtime keeps running every task that
\* can take a step, every request in flight completes, and the main thread
\* runs.  Interrupts and the passing of time are not forced.
LiveConfigs ==
    {c \in Configs(RunIterations, RunDurations) :
        c.print_response /\ c.iterations # Some(W(0))}

InitLive == InitWith(LiveConfigs) /\ NoCli

Main == Resolve \/ Spawn \/ Join \/ PrintResults \/ Return \/ Exit

FairSpec ==
    /\ InitLive
    /\ [][Next]_vars
    /\ WF_vars(Main)
    /\ \A w \in Tasks : WF_vars(Worker(w))

\* ------------------------------------------------------------------------
\* Properties

\* The iteration bound of the configuration as a natural number, 0 for none.
IterationBound ==
    IF config.iterations = None THEN 0 ELSE config.iterations.val[4]

\* The requests never exceed the iteration bound by more than the other
\* workers' requests in flight.
OvershootAtMost ==
    IterationBound >= 1 =>
        /\ passes + errors <= IterationBound + config.connections - 1
        /\ issued <= IterationBound + config.connections - 1

\* No latency has been out of the histogram's range: the clock has not yet
\* passed HIST_MAX microseconds.
InRange == WLe(now, HIST_MAX)

\* C1: with an iteration bound I >= 1 and N workers at most I + N - 1
\* requests are counted, and a single worker with neither a duration bound
\* nor an interrupt is reported with exactly I (stated for the runs whose
\* latencies are all in the histogram's range).
IterationCountBound ==
    /\ OvershootAtMost
    /\ (/\ report # None
        /\ IterationBound >= 1
        /\ config.connections = 1
        /\ config.duration = None
        /\ interrupts = 0
        /\ InRange)
       => report.val.passes + report.val.errors = IterationBound

\* C2: a request is sent only from a check that read total < iterations,
\* elapsed < duration and the flag false; a check that fails stops the
\* worker, which never leaves the stopped state.
StopCheck ==
    [][\A w \in Tasks :
        /\ (pc'[w] = "await" /\ pc[w] # "await")
              => pc[w] = "check_exit" /\ ~should_exit
        /\ (pc'[w] = "check_exit" /\ pc[w] # "check_exit")
              => /\ pc[w] = "load_elapsed"
                 /\ WLt(W(total[w]), iterations)
                 /\ WLt(elapsed_micros(test_start_time), duration)
        /\ (/\ pc[w] = "load_elapsed"
            /\ pc'[w] \notin {pc[w], "killed"}
            /\ ~(/\ WLt(W(total[w]), iterations)
                 /\ WLt(elapsed_micros(test_start_time), duration)))
              => pc'[w] = "stopped"
        /\ (pc[w] = "check_exit" /\ should_exit /\ pc'[w] \notin {pc[w], "killed"})
              => pc'[w] = "stopped"
        /\ pc[w] = "stopped" => pc'[w] \in {"stopped", "killed"}
      ]_vars

\* A worker has stopped at a check after requests were sent, no interrupt
\* having been delivered.
StopCheckWitness ==
    /\ \E w \in Tasks : pc[w] = "stopped"
    /\ issued >= 2
    /\ interrupts = 0

\* C3: with only an iteration bound I >= 1 and no interrupt, the report of a
\* run that has ended counts at least I requests (stated for the runs whose
\* latencies are all in the histogram's range).
IterationRunCounts ==
    (/\ report # None
     /\ IterationBound >= 1
     /\ config.duration = None
     /\ interrupts = 0
     /\ InRange)
    => report.val.passes + report.val.errors >= IterationBound

\* C4: a request in flight at the first interrupt has its latency recorded
\* and is counted in passes or errors before its worker is over (stated for
\* the runs whose latencies are all in the histogram's range).
InFlightCounted ==
    InRange => \A w \in Tasks : Finished(w) => owed[w] \in {"none", "counted"}

\* C5: after a first interrupt a worker that reads the flag sends nothing
\* more and stays stopped, the report is made from the counters and the
\* histogram once every task is over, and, unless a second interrupt kills
\* the process, the report is eventually made.
GracefulDrain ==
    /\ [][\A w \in Tasks :
            /\ (pc[w] = "check_exit" /\ should_exit /\ pc'[w] # pc[w])
                  => pc'[w] \in {"stopped", "killed"}
            /\ (should_exit /\ Finished(w)) => pc'[w] \in {pc[w], "killed"}
         ]_vars
    /\ [][(report = None /\ report' # None)
            => /\ \A w \in 1..config.connections : Finished(w)
               /\ report'.val.passes = passes
               /\ report'.val.errors = errors
               /\ report'.val.samples = times.len
         ]_vars
    /\ (should_exit ~> (report # None \/ interrupts = 2))

\* The report was made after one interrupt that found a request in flight,
\* which was counted.
GracefulDrainWitness ==
    /\ interrupts = 1
    /\ report # None
    /\ \E w \in Tasks : owed[w] = "counted"

\* C6: an interrupt that finds the flag set ends the process at once with
\* status 130 and nothing is written after it; with at most one interrupt
\* the process does not end with 130, and it ends with 0 only after the
\* report.
SecondInterruptExits ==
    /\ [](exitStatus = Some(130) => interrupts = 2)
    /\ [](interrupts <= 1 => exitStatus \in {None, Some(0)})
    /\ [](exitStatus = Some(0) => report # None)
    /\ [][(interrupts' = interrupts + 1 /\ should_exit)
            => /\ exitStatus' = Some(130)
               /\ report' = report
               /\ stdout' = stdout
         ]_vars
    /\ [][exitStatus # None => UNCHANGED <<exitStatus, report, stdout>>]_vars

\* A second interrupt has ended the process while requests were in flight
\* and before any report.
SecondInterruptWitness ==
    /\ exitStatus = Some(130)
    /\ issued >= 1
    /\ report = None

\* The counters move as for a pass, as for an error, or not at all.
StepPass == passes' = passes + 1 /\ errors' = errors
StepError == errors' = errors + 1 /\ passes' = passes
StepNone == passes' = passes /\ errors' = errors

NoLostIncrement ==
    /\ Running =>
          /\ passes = classified.pass
          /\ errors = classified.fail
          /\ (~answered.other /\ config.failed_body = None) => errors = 0
          /\ ~answered.s2xx => passes = 0
    /\ report # None =>
          /\ report.val.passes = classified.pass
          /\ report.val.errors = classified.fail
          /\ (~answered.other /\ config.failed_body = None)
                => report.val.errors = 0
          /\ ~answered.s2xx => report.val.passes = 0

\* Two workers have counted requests of both kinds and the report is made.
NoLostIncrementWitness ==
    /\ report # None
    /\ config.connections = 2
    /\ report.val.passes >= 1
    /\ report.val.errors >= 2

\* C9: a 2xx response whose body matches the pattern adds one to errors and
\* leaves passes, and one whose body does not match adds one to passes and
\* leaves errors.
PatternVerdict ==
    [][\A w \in Tasks :
        (pc[w] = "judge" /\ pc'[w] \notin {"judge", "killed"})
           => /\ config.failed_body = Some("error")
              /\ body[w] = "internal error occurred" => StepError
              /\ body[w] = "I was hit." => StepPass
              /\ body[w] \in Bodies
      ]_vars

\* A 2xx response was counted as an error and another as a pass.
PatternVerdictWitness ==
    /\ config.failed_body # None
    /\ ~answered.other
    /\ errors >= 1
    /\ passes >= 1

\* C10: the stop bound resolved from the iteration count and the duration
\* of the configuration.
ResolvedBound ==
    mainPc # "resolve" =>
        /\ (config.iterations = None /\ config.duration = None)
              => iterations = USIZE_MAX /\ duration = W(20000000)
        /\ (config.iterations # None /\ config.duration = None)
              => iterations = config.iterations.val /\ duration = U64_MAX
        /\ \A u \in BoundMicros :
              config.duration = Some(from_micros(u))
                 => /\ duration = u
                    /\ iterations = IF config.iterations = None
                                       THEN USIZE_MAX
                                       ELSE config.iterations.val

\* The bound was resolved from a configuration with neither, and from one
\* with both.
ResolvedBoundWitness ==
    /\ mainPc # "resolve"
    /\ config.iterations = Some(W(1))
    /\ config.duration = Some(from_micros(W(90000000)))
    /\ duration = W(90000000)

\* C11: whatever the configuration, the resolved stop bound is never the
\* pair (unbounded iterations, unbounded duration).
BoundFinite ==
    mainPc # "resolve" => ~(iterations = USIZE_MAX /\ duration = U64_MAX)

\* C12: with only a duration bound D and no interrupt the run does not end
\* before D has elapsed: the elapsed time of the report is at least D.
DurationRunLasts ==
    (/\ report # None
     /\ config.iterations = None
     /\ config.duration # None
     /\ interrupts = 0)
    => WLe(as_micros(config.duration.val), report.val.elapsed_us)

\* C13: the main thread reads the counters and the histogram for the report
\* only when every spawned task is over, and nothing is written to them
\* after the read: they still hold what the report was made from.
JoinBeforeRead ==
    /\ mainPc \in {"print", "return", "returned"}
          => \A w \in 1..config.connections : Finished(w)
    /\ (report # None /\ mainPc \in {"return", "returned"})
          => /\ report.val.passes = passes
             /\ report.val.errors = errors
             /\ report.val.samples = times.len

\* The report was made from what two workers had counted and recorded.
JoinBeforeReadWitness ==
    /\ report # None
    /\ config.connections = 2
    /\ \A w \in Tasks : pc[w] = "stopped"
    /\ report.val.passes + report.val.errors >= 2
    /\ report.val.samples >= 2

\* The requests sent and not yet counted: those of the workers between the
\* send and the increment of a counter.
Uncounted ==
    Cardinality({w \in Tasks :
        pc[w] \in {"await", "lock", "record", "match", "body", "judge"}})

\* C14: a request that fails does not end its worker: no task panics, and
\* every request sent is counted exactly once, in passes or errors, when its
\* worker is through with it (stated for the runs whose latencies are all in
\* the histogram's range).
FailureIsLocal ==
    (Running /\ InRange) =>
        /\ \A w \in Tasks : pc[w] # "panicked"
        /\ issued = passes + errors + Uncounted

\* C15: a latency that the histogram rejects is fatal to the whole run: once
\* a task has panicked on it no report is made.  (Without a failure pattern
\* and without print_response no body is read, and the rejected record is
\* the only panic of a task.)
RecordOverflowFatal ==
    (/\ config.failed_body = None
     /\ ~config.print_response
     /\ \E w \in Tasks : pc[w] = "panicked")
    => report = None

\* C16: the report states the errors as errors: <e>/<total>, e the error
\* count and total = passes + errors as they are once every task is joined,
\* followed by a percentage exactly when e > 0.
ErrorsLine ==
    (report # None /\ mainPc \in {"return", "returned"}) =>
        /\ report.val.errors_line.errors = errors
        /\ report.val.errors_line.iterations = passes + errors
        /\ report.val.errors_line.percent # None <=> errors > 0

\* A report of one error in three requests has been made: 33.33%.
ErrorsLineWitness ==
    /\ report # None
    /\ report.val.errors_line.errors = 1
    /\ report.val.errors_line.iterations = 3
    /\ report.val.errors_line.percent = Some(3333)

\* A positive decimal number: digits with at most one point, which has a
\* digit on either side, and a digit that is not 0.
PositiveDecimal(t) ==
    /\ t # <<>>
    /\ \A i \in 1..Len(t) : is_digit(t[i]) \/ t[i] = "."
    /\ Cardinality({i \in 1..Len(t) : t[i] = "."}) <= 1
    /\ t[1] # "." /\ t[Len(t)] # "."
    /\ \E i \in 1..Len(t) : is_digit(t[i]) /\ t[i] # "0"

\* C17: parse_duration accepts a text exactly when the whole text is a
\* positive decimal number followed at once by one of s, m, h; every other
\* text gets DurationParseError.
ParseAcceptsWhole ==
    parse_result # None =>
        (parse_result.val.tag = "Ok"
            <=> /\ duration_arg # <<>>
                /\ is_unit(duration_arg[Len(duration_arg)])
                /\ PositiveDecimal(SubSeq(duration_arg, 1, Len(duration_arg) - 1)))

\* C18: with print_response every request counted as a pass has its body
\* printed once, as soon as its worker has read it; without print_response
\* no body is printed; either way the request is counted once in passes.
PassPrinted ==
    Running =>
        /\ passes = classified.pass
        /\ config.print_response
              => stdout = classified.pass
                            - Cardinality({w \in Tasks : pc[w] = "text"})
        /\ ~config.print_response => stdout = 0

\* C19: the flag is false until the first interrupt and true ever after:
\* in every state it is set exactly when an interrupt has been delivered,
\* whatever the workers, the main thread and later interrupts have done.
FlagMonotonic == should_exit <=> interrupts >= 1

\* The run has ended normally after an interrupt that a worker read, and
\* the flag is still set.
FlagMonotonicWitness ==
    /\ should_exit
    /\ exitStatus = Some(0)
    /\ issued >= 1
    /\ \A w \in 1..config.connections : pc[w] = "stopped"

\* C20: the latency of a request whose body is read is taken and recorded
\* only after the body has been read: a worker that is reading a body has
\* no sample of that request in the histogram yet, so the samples and the
\* bodies being read are together no more than the requests sent.
LatencyAfterBody ==
    Running =>
        times.len + Cardinality({w \in Tasks : pc[w] \in {"body", "text"}})
            <= issued

\* C21: the configured request body is attached to a POST request only: a
\* GET request is sent without a body.
BodyOnlyOnPost ==
    \A r \in sent :
        /\ r.method = config.method
        /\ r.method = "Post" => r.body = config.request_body
        /\ r.method = "Get" => r.body = None

\* C22: at most one worker is in the critical section of the histogram,
\* and the lock is held for the record call alone: its holder is at the
\* record statement, and no worker sending, awaiting a response or reading
\* a body holds it.
LockAroundRecord ==
    /\ \A w \in Tasks : pc[w] = "record" <=> lock = w
    /\ Cardinality({w \in Tasks : pc[w] = "record"}) <= 1
    /\ lock \in Tasks \cup {0}

\* One worker holds the lock while the other waits for it.
LockAroundRecordWitness ==
    \E w, v \in Tasks : lock = w /\ pc[w] = "record" /\ pc[v] = "lock"

\* The requests in flight: those of the workers awaiting a response.
InFlight == Cardinality({w \in Tasks : pc[w] = "await"})

\* C23: exactly `connections` workers are spawned, and as each worker has
\* one request in flight at most, never more than `connections` requests
\* are in flight.
SpawnsConnections ==
    Running =>
        /\ handles <= config.connections
        /\ mainPc \notin {"resolve", "spawn"} => handles = config.connections
        /\ \A w \in Tasks : pc[w] # "unspawned" <=> w <= handles
        /\ InFlight <= handles

\* Every worker of two has a request in flight.
SpawnsConnectionsWitness ==
    /\ config.connections = 2
    /\ handles = 2
    /\ InFlight = 2

\* C24: the overshoot bound is tight.  A run with an iteration bound I >= 1
\* alone, uninterrupted and with no task panicked, is reported with at
\* least I and at most I + N - 1 requests; the witness below is a run of
\* N = 2 workers that ends with I + N - 1 > I, both workers having passed
\* the check before either increment.
OvershootTight ==
    (/\ report # None
     /\ IterationBound >= 1
     /\ config.duration = None
     /\ interrupts = 0
     /\ \A w \in Tasks : pc[w] # "panicked")
    => /\ report.val.passes + report.val.errors >= IterationBound
       /\ report.val.passes + report.val.errors
             <= IterationBound + config.connections - 1

\* Two workers with an iteration bound of 1 have ended with 2 requests.
OvershootTightWitness ==
    /\ report # None
    /\ config.iterations = Some(W(1))
    /\ config.duration = None
    /\ config.connections = 2
    /\ interrupts = 0
    /\ \A w \in Tasks : pc[w] = "stopped"
    /\ report.val.passes + report.val.errors = 2

\* C25: the Ctrl-C handler that run installs is installed for the run
\* only: once run has returned, no interrupt is handled by it.
HandlerForRunOnly ==
    [][mainPc = "returned" => interrupts' = interrupts]_vars

\* C26: the histogram holds at least passes + errors samples, and more only
\* by the workers that have recorded a latency and not yet incremented a
\* counter; the report is made from exactly passes + errors samples.
SamplesMatchCounters ==
    /\ Running =>
          /\ times.len >= passes + errors
          /\ times.len - (passes + errors)
                <= Cardinality({w \in Tasks : pc[w] \in {"match", "body", "judge"}})
    /\ report # None
          => report.val.samples = report.val.passes + report.val.errors

\* C27: a whole number x of microseconds is displayed in us without
\* decimals below 1000, in ms below 1 000 000 and in s from there on, with
\* 2, 1 and 0 decimals in the successive decades of the ms and of the s
\* range; the number displayed is x in that unit, to the last decimal.
DisplayByMagnitude ==
    report # None =>
        LET x == report.val.elapsed_us
            t == report.val.total_time
            n == x[3] * Limb + x[4]
            scale == IF t.unit = "us" THEN 1
                     ELSE IF t.unit = "ms" THEN 1000 \div pow10(t.decimals)
                     ELSE Limb \div pow10(t.decimals)
            shown == t.value[3] * Limb + t.value[4]
        IN  /\ t.unit = IF WLt(x, W(1000)) THEN "us"
                        ELSE IF WLt(x, W(1000000)) THEN "ms"
                        ELSE "s"
            /\ t.decimals =
                  IF WLt(x, W(1000)) THEN 0
                  ELSE IF WLt(x, W(10000)) THEN 2
                  ELSE IF WLt(x, W(100000)) THEN 1
                  ELSE IF WLt(x, W(1000000)) THEN 0
                  ELSE IF WLt(x, W(10000000)) THEN 2
                  ELSE IF WLt(x, W(100000000)) THEN 1
                  ELSE 0
            /\ WLt(x, <<0, 0, 1000, 0>>)
                  => /\ shown * scale - n <= scale \div 2
                     /\ n - shown * scale <= scale \div 2
            /\ x = W(1010)
                  => t = [value |-> W(101), decimals |-> 2, unit |-> "ms"]
            /\ x = W(10000)
                  => t = [value |-> W(100), decimals |-> 1, unit |-> "ms"]
            /\ x = W(100000)
                  => t = [value |-> W(100), decimals |-> 0, unit |-> "ms"]
            /\ x = W(1000000)
                  => t = [value |-> W(100), decimals |-> 2, unit |-> "s"]

\* 1010 microseconds have been displayed as 1.01 ms.
DisplayByMagnitudeWitness ==
    /\ report # None
    /\ report.val.elapsed_us = W(1010)
    /\ report.val.total_time = [value |-> W(101), decimals |-> 2, unit |-> "ms"]

====
